---- MODULE Spec2Model ----
(***************************************************************************)
(* Model of mudflow (src/src/main.rs): one run of the command line tool.   *)
(* Source files are format-resolved and read, their contents deserialized  *)
(* and merged into one tera Context, and the context is rendered either    *)
(* to every template of a glob under an output directory or to standard    *)
(* output.  Every call that touches the outside world is one step; a call  *)
(* the code guards with map_err or `?` may fail, and the writes to stderr, *)
(* which the code unwraps, are taken to succeed.                           *)
(***************************************************************************)
EXTENDS Integers, Sequences, FiniteSets, TLC

VARIABLES
    args,       \* Args: sources (Option<Vec<PathBuf>>), out_dir, format, templates
    pc,         \* position of the run
    inputs,     \* Vec<(FileFormat, String)> collected so far (`inputs` / `sources`)
    format,     \* `format` of the source being read (local of the loop body)
    context,    \* the Context accumulated by deserialize
    idx,        \* number of sources deserialize has consumed
    result,     \* what run returned: [ok, err]
    tera,       \* template names in the order get_template_names yields them
    t,          \* number of templates the output loop has finished
    dirs,       \* directories this run has created
    files,      \* content of the destination files (before and after the run)
    stdout,     \* what was written to standard output
    log,        \* calls made so far, in order: [op, n, ok]
    exitCode    \* process exit code, -1 while running

vars == <<args, pc, inputs, format, context, idx, result, tera, t, dirs, files,
          stdout, log, exitCode>>

(***************************************************************************)
(* Bounds                                                                  *)
(***************************************************************************)
MaxSources == 2
MaxTemplates == 2

(***************************************************************************)
(* Text: a string is a sequence of one-character strings.                  *)
(***************************************************************************)
UpperChars == <<"A","B","C","D","E","F","G","H","I","J","K","L","M",
                "N","O","P","Q","R","S","T","U","V","W","X","Y","Z">>
LowerChars == <<"a","b","c","d","e","f","g","h","i","j","k","l","m",
                "n","o","p","q","r","s","t","u","v","w","x","y","z">>
Whitespace == {" ", "\t", "\n"}

\* char::to_lowercase on the ASCII letters
LowerChar(c) ==
    IF \E k \in 1..Len(UpperChars) : UpperChars[k] = c
    THEN LowerChars[CHOOSE k \in 1..Len(UpperChars) : UpperChars[k] = c]
    ELSE c

UpperChar(c) ==
    IF \E k \in 1..Len(LowerChars) : LowerChars[k] = c
    THEN UpperChars[CHOOSE k \in 1..Len(LowerChars) : LowerChars[k] = c]
    ELSE c

\* str::to_lowercase
to_lowercase(s) == [k \in 1..Len(s) |-> LowerChar(s[k])]

\* str::trim: leading and trailing whitespace removed, inner whitespace kept
trim(s) ==
    LET keep == {k \in 1..Len(s) : s[k] \notin Whitespace}
        lo == CHOOSE k \in keep : \A m \in keep : k <= m
        hi == CHOOSE k \in keep : \A m \in keep : k >= m
    IN  IF keep = {} THEN <<>> ELSE SubSeq(s, lo, hi)

\* Path::extension().unwrap_or_default(): the part of the file name after its
\* last dot; empty when there is no dot or the only dot starts the name.
extension(name) ==
    LET dots == {k \in 1..Len(name) : name[k] = "."}
        last == CHOOSE k \in dots : \A m \in dots : k >= m
    IN  IF dots = {} \/ last = 1 THEN <<>>
        ELSE SubSeq(name, last + 1, Len(name))

(***************************************************************************)
(* FileFormat and the errors of run                                        *)
(***************************************************************************)
FileFormat == {"Json", "Yaml", "Toml"}
None == "None"

\* enum Error: the variant, its message, and the source index the message
\* names (0: no message of the program names one).
Err(kind, msg) == [kind |-> kind, msg |-> msg, index |-> 0]
NoErr == [kind |-> "", msg |-> "", index |-> 0]
Ok == [ok |-> TRUE, err |-> NoErr]
Fail(e) == [ok |-> FALSE, err |-> e]
Running == [ok |-> FALSE, err |-> [kind |-> "running", msg |-> "", index |-> 0]]

\* impl From<tera::Error> for Error
FromTera(msg) == Err("Template", msg)

\* the match of FileFormat::from_ext on an already normalised extension
MatchExt(e) ==
    IF e = <<"j","s","o","n">> THEN [ok |-> TRUE, v |-> "Json", err |-> NoErr]
    ELSE IF e = <<"y","a","m","l">> \/ e = <<"y","m","l">>
         THEN [ok |-> TRUE, v |-> "Yaml", err |-> NoErr]
    ELSE IF e = <<"t","o","m","l">> THEN [ok |-> TRUE, v |-> "Toml", err |-> NoErr]
    ELSE [ok |-> FALSE, v |-> None,
          err |-> Err("UnsupportedExt", "Unsupported file extension")]

\* faulty variant: from_ext without to_lowercase
from_ext_CaseSensitive(s) == MatchExt(trim(s))

\* FileFormat::from_ext
from_ext(s) == MatchExt(to_lowercase(trim(s)))

(***************************************************************************)
(* serde_json::Value.  Every value is a record of the same shape: kind,    *)
(* the number or string of a scalar, and the members of an object (keyed   *)
(* by name) or of an array (keyed "[0]", "[1]", ...).                      *)
(***************************************************************************)
NoMembers == [k \in {} |-> 0]
Null == [kind |-> "null", num |-> 0, str |-> "", members |-> NoMembers]
Num(n) == [kind |-> "number", num |-> n, str |-> "", members |-> NoMembers]
Str(s) == [kind |-> "string", num |-> 0, str |-> s, members |-> NoMembers]
Object(m) == [kind |-> "object", num |-> 0, str |-> "", members |-> m]
Array(m) == [kind |-> "array", num |-> 0, str |-> "", members |-> m]

Parsed(v) == [ok |-> TRUE, value |-> v]
Rejected == [ok |-> FALSE, value |-> Null]

\* The documents the model reads from source files and standard input.
DocA1 == "{\"a\": 1}"
DocA2 == "a: 2"
DocA3 == "a = 3"
DocNestX == "{\"a\": {\"x\": 1}, \"b\": 1}"
DocNestY == "{\"a\": {\"y\": 2}, \"c\": 3}"
DocArray == "[1]"
DocScalar == "42"
DocNull == "null"
DocBroken == "{"
DocTable == "b = 4"

Docs == {DocA1, DocA2, DocA3, DocNestX, DocNestY, DocArray, DocScalar, DocNull,
         DocBroken, DocTable}

\* serde_json::from_str::<serde_json::Value>
JsonFromStr(str) ==
    CASE str = DocA1 -> Parsed(Object("a" :> Num(1)))
      [] str = DocNestX -> Parsed(Object(("a" :> Object("x" :> Num(1))) @@ ("b" :> Num(1))))
      [] str = DocNestY -> Parsed(Object(("a" :> Object("y" :> Num(2))) @@ ("c" :> Num(3))))
      [] str = DocArray -> Parsed(Array("[0]" :> Num(1)))
      [] str = DocScalar -> Parsed(Num(42))
      [] str = DocNull -> Parsed(Null)
      [] OTHER -> Rejected

\* serde_yaml::from_str::<serde_json::Value>: the JSON documents are YAML flow
\* syntax; "a: 2" is a block mapping; a line without ": " is a plain string.
YamlFromStr(str) ==
    CASE str = DocA2 -> Parsed(Object("a" :> Num(2)))
      [] str = DocA3 -> Parsed(Str(DocA3))
      [] str = DocTable -> Parsed(Str(DocTable))
      [] str = DocBroken -> Rejected
      [] OTHER -> JsonFromStr(str)

\* toml::from_str::<serde_json::Value>: a TOML document is always a table
TomlFromStr(str) ==
    CASE str = DocA3 -> Parsed(Object("a" :> Num(3)))
      [] str = DocTable -> Parsed(Object("b" :> Num(4)))
      [] OTHER -> Rejected

\* the match on `format` in deserialize
FromStr(fmt, str) ==
    CASE fmt = "Json" -> JsonFromStr(str)
      [] fmt = "Yaml" -> YamlFromStr(str)
      [] fmt = "Toml" -> TomlFromStr(str)

DeserializationError(fmt) ==
    CASE fmt = "Json" -> Err("Deserialization", "Failed JSON deserialization")
      [] fmt = "Yaml" -> Err("Deserialization", "Failed YAML deserialization")
      [] fmt = "Toml" -> Err("Deserialization", "Failed TOML deserialization")

(***************************************************************************)
(* tera::Context: a map from key to value                                  *)
(***************************************************************************)
\* Context::new
ContextNew == NoMembers

\* Context::from_value: only an object becomes a context
ContextFromValue(value) ==
    IF value.kind = "object"
    THEN [ok |-> TRUE, ctx |-> value.members, err |-> NoErr]
    ELSE [ok |-> FALSE, ctx |-> ContextNew,
          err |-> FromTera("Creating a Context from a Value/Serializable requires it being a JSON object")]

\* faulty variant: extend that merges two objects bound to the same key
ExtendDeep(ctx, source) ==
    [k \in DOMAIN ctx \cup DOMAIN source |->
        IF k \notin DOMAIN source THEN ctx[k]
        ELSE IF k \notin DOMAIN ctx THEN source[k]
        ELSE IF ctx[k].kind = "object" /\ source[k].kind = "object"
             THEN Object([m \in DOMAIN ctx[k].members \cup DOMAIN source[k].members |->
                            IF m \in DOMAIN source[k].members
                            THEN source[k].members[m] ELSE ctx[k].members[m]])
        ELSE source[k]]

\* Context::extend: every entry of source is inserted, replacing an entry of
\* the same key
Extend(ctx, source) ==
    [k \in DOMAIN ctx \cup DOMAIN source |->
        IF k \in DOMAIN source THEN source[k] ELSE ctx[k]]

(***************************************************************************)
(* Paths: a source file is known by its file name (a string of characters) *)
(* and a path under the output directory by its components.                *)
(***************************************************************************)
FileName(stem, ext) == stem \o <<".">> \o ext

\* source files of a run
SourceNames == {FileName(<<"a">>, <<"j","s","o","n">>),
                FileName(<<"b">>, <<"Y","M","L">>),
                <<"n","o","t","e","s">>}

\* contents the run may find in a source file or on standard input
SourceDocs == {DocA1, DocScalar, DocBroken}

\* the template argument: a literal path or a glob
LiteralTemplate == <<"t",".","t","x","t">>
GlobTemplate == <<"t","p","l","/","*">>
TemplateArgs == {LiteralTemplate, GlobTemplate}

OutDir == <<"out">>

\* names tera gives the files a glob matches: paths relative to the glob's base
TemplatePool == << <<"greet.txt">>, <<"sub", "page.txt">>, <<"sub", "deep", "x.txt">>,
                   <<"y.txt">> >>
TemplateNames == {TemplatePool[k] : k \in 1..MaxTemplates}

\* str::find('*').is_some()
HasStar(pattern) == \E k \in 1..Len(pattern) : pattern[k] = "*"

\* PathBuf::join with a relative path
join(base, rel) == base \o rel

\* Path::parent
parent(path) == SubSeq(path, 1, Len(path) - 1)

\* the directories create_dir_all(path) makes sure exist
Ancestors(path) == {SubSeq(path, 1, k) : k \in 1..Len(path)}

\* every ordering of a set of template names
Orderings(S) ==
    {q \in UNION {[1..n -> S] : n \in {Cardinality(S)}} :
        \A x, y \in 1..Len(q) : x # y => q[x] # q[y]}

SeqsUpTo(S, n) == UNION {[1..k -> S] : k \in 0..n}

Event(op, n, ok) == [op |-> op, n |-> n, ok |-> ok]

(***************************************************************************)
(* The state after Args::parse                                             *)
(***************************************************************************)
NoFiles == [p \in {} |-> ""]

ArgsSet(names, templates) ==
    [sources : [some : {TRUE}, v : SeqsUpTo(names, MaxSources)]
                 \cup {[some |-> FALSE, v |-> <<>>]},
     out_dir : BOOLEAN,
     format : FileFormat \cup {None},
     templates : templates]

Start(a, disk) ==
    /\ args = a
    /\ pc = IF a.sources.some THEN "sources" ELSE "stdin"
    /\ inputs = <<>>
    /\ format = None
    /\ context = ContextNew
    /\ idx = 0
    /\ result = Running
    /\ tera = <<>>
    /\ t = 0
    /\ dirs = UNION {Ancestors(parent(p)) : p \in DOMAIN disk}
    /\ files = disk
    /\ stdout = ""
    /\ log = <<>>
    /\ exitCode = -1

Init ==
    \E a \in ArgsSet(SourceNames, TemplateArgs) :
    \E disk \in {NoFiles, [p \in {join(OutDir, n) : n \in TemplateNames} |-> "old"]} :
        Start(a, disk)

\* run returns Err(e): `?`
Return(r) ==
    /\ result' = r
    /\ pc' = "returned"

(***************************************************************************)
(* run, lines 67-102: the sources                                          *)
(***************************************************************************)
\* the source the loop of line 70 is at
source_path == args.sources.v[Len(inputs) + 1]

\* lines 71-80: the format of the source at hand
Resolve ==
    IF args.format # None
    THEN [ok |-> TRUE, v |-> args.format, err |-> NoErr]
    ELSE from_ext(extension(source_path))

\* lines 70-80: the loop takes the next source and resolves its format
ResolveFormat ==
    /\ pc = "sources"
    /\ Len(inputs) < Len(args.sources.v)
    /\ log' = Append(log, Event("resolve", Len(inputs) + 1, Resolve.ok))
    /\ IF Resolve.ok
       THEN /\ format' = Resolve.v
            /\ pc' = "read"
            /\ UNCHANGED result
       ELSE /\ Return(Fail(Resolve.err))
            /\ UNCHANGED format
    /\ UNCHANGED <<args, inputs, context, idx, tera, t, dirs, files, stdout, exitCode>>

\* lines 81-88: read_to_string(source_path), then inputs.push
ReadSource ==
    /\ pc = "read"
    /\ \/ \E str \in SourceDocs :
            /\ inputs' = Append(inputs, <<format, str>>)
            /\ log' = Append(log, Event("read_source", Len(inputs) + 1, TRUE))
            /\ pc' = "sources"
            /\ UNCHANGED result
       \/ /\ log' = Append(log, Event("read_source", Len(inputs) + 1, FALSE))
          /\ Return(Fail(Err("IO", "Failed to read source file")))
          /\ UNCHANGED inputs
    /\ UNCHANGED <<args, format, context, idx, tera, t, dirs, files, stdout, exitCode>>

\* line 90: the loop is over, `inputs` is the value of the block
SourcesDone ==
    /\ pc = "sources"
    /\ Len(inputs) = Len(args.sources.v)
    /\ pc' = "deserialize"
    /\ UNCHANGED <<args, inputs, format, context, idx, result, tera, t, dirs, files,
                   stdout, log, exitCode>>

\* faulty variant: standard input is read before the format is looked at
StdinFormatReadFirst ==
    /\ pc = "stdin"
    /\ log' = Append(log, Event("read_stdin", 1, TRUE))
    /\ IF args.format = None
       THEN /\ Return(Fail(Err("Msg", "Format required when using stdin!")))
            /\ UNCHANGED format
       ELSE /\ format' = args.format
            /\ pc' = "read_stdin"
            /\ UNCHANGED result
    /\ UNCHANGED <<args, inputs, context, idx, tera, t, dirs, files, stdout, exitCode>>

\* lines 92-94: args.format.ok_or_else(..)?
StdinFormat ==
    /\ pc = "stdin"
    /\ IF args.format = None
       THEN /\ Return(Fail(Err("Msg", "Format required when using stdin!")))
            /\ UNCHANGED format
       ELSE /\ format' = args.format
            /\ pc' = "read_stdin"
            /\ UNCHANGED result
    /\ UNCHANGED <<args, inputs, context, idx, tera, t, dirs, files, stdout, log, exitCode>>

\* lines 95-100: stdin.read_to_string, then vec![(format, input_str)]
ReadStdin ==
    /\ pc = "read_stdin"
    /\ \/ \E str \in SourceDocs :
            /\ inputs' = <<<<format, str>>>>
            /\ log' = Append(log, Event("read_stdin", 1, TRUE))
            /\ pc' = "deserialize"
            /\ UNCHANGED result
       \/ /\ log' = Append(log, Event("read_stdin", 1, FALSE))
          /\ Return(Fail(Err("IO", "Failed to read stdin")))
          /\ UNCHANGED inputs
    /\ UNCHANGED <<args, format, context, idx, tera, t, dirs, files, stdout, exitCode>>

(***************************************************************************)
(* deserialize, lines 171-188                                              *)
(***************************************************************************)
\* faulty variant: a source that does not deserialize is skipped
DeserializeStepSkipBad ==
    /\ pc = "deserialize"
    /\ idx < Len(inputs)
    /\ LET fmt == inputs[idx + 1][1]
           str == inputs[idx + 1][2]
           value == FromStr(fmt, str)
           source == ContextFromValue(value.value)
       IN  /\ log' = Append(log, Event("from_str", idx + 1, value.ok))
           /\ context' = IF value.ok /\ source.ok THEN Extend(context, source.ctx)
                         ELSE context
           /\ idx' = idx + 1
           /\ UNCHANGED <<pc, result>>
    /\ UNCHANGED <<args, inputs, format, tera, t, dirs, files, stdout, exitCode>>

\* lines 173-186: one turn of the loop over the inputs
DeserializeStep ==
    /\ pc = "deserialize"
    /\ idx < Len(inputs)
    /\ LET fmt == inputs[idx + 1][1]
           str == inputs[idx + 1][2]
           value == FromStr(fmt, str)
           source == ContextFromValue(value.value)
       IN  /\ log' = Append(log, Event("from_str", idx + 1, value.ok))
           /\ IF ~value.ok
              THEN /\ Return(Fail(DeserializationError(fmt)))
                   /\ UNCHANGED <<context, idx>>
              ELSE IF ~source.ok
              THEN /\ Return(Fail(source.err))
                   /\ UNCHANGED <<context, idx>>
              ELSE /\ context' = Extend(context, source.ctx)
                   /\ idx' = idx + 1
                   /\ UNCHANGED <<pc, result>>
    /\ UNCHANGED <<args, inputs, format, tera, t, dirs, files, stdout, exitCode>>

\* faulty variant: a glob takes the directory branch without an out_dir
DeserializeReturnToDir ==
    /\ pc = "deserialize"
    /\ idx = Len(inputs)
    /\ pc' = IF args.out_dir \/ HasStar(args.templates) THEN "tera_new" ELSE "read_template"
    /\ UNCHANGED <<args, inputs, format, context, idx, result, tera, t, dirs, files,
                   stdout, log, exitCode>>

\* line 187 and lines 103-105: Ok(context) comes back to run, which branches
\* on args.out_dir
DeserializeReturn ==
    /\ pc = "deserialize"
    /\ idx = Len(inputs)
    /\ pc' = IF args.out_dir THEN "tera_new" ELSE "read_template"
    /\ UNCHANGED <<args, inputs, format, context, idx, result, tera, t, dirs, files,
                   stdout, log, exitCode>>

(***************************************************************************)
(* run, lines 105-136: an output directory is given                        *)
(***************************************************************************)
\* line 106: Tera::new(&args.templates)?.  Tera refuses a pattern without a
\* `*`; otherwise it loads every file the glob matches (none, some or all of
\* the names) and fails when one of them does not parse.
TeraNew ==
    /\ pc = "tera_new"
    /\ \/ /\ HasStar(args.templates)
          /\ \E matched \in SUBSET TemplateNames : \E names \in Orderings(matched) :
                /\ tera' = names
                /\ log' = Append(log, Event("Tera::new", Len(names), TRUE))
                /\ pc' = "create_out_dir"
                /\ UNCHANGED result
       \/ /\ log' = Append(log, Event("Tera::new", 0, FALSE))
          /\ Return(Fail(FromTera("Tera::new failed")))
          /\ UNCHANGED tera
    /\ UNCHANGED <<args, inputs, format, context, idx, t, dirs, files, stdout, exitCode>>

\* the template the loop of line 115 is at
template == tera[t + 1]

\* faulty variant: the destination keeps the file name of the template only
pathFlat == join(OutDir, <<template[Len(template)]>>)

\* line 116: out_dir.join(template)
path == join(OutDir, template)

\* lines 115, 136 and 150: the loop goes on to the next template, or run
\* returns Ok(())
NextTemplate ==
    IF t' < Len(tera')
    THEN pc' = "create_parent" /\ UNCHANGED result
    ELSE Return(Ok)

\* lines 108-114: create_dir_all(&out_dir)
CreateOutDir ==
    /\ pc = "create_out_dir"
    /\ \/ /\ dirs' = dirs \cup Ancestors(OutDir)
          /\ log' = Append(log, Event("create_dir_all", 0, TRUE))
          /\ UNCHANGED <<t, tera>>
          /\ NextTemplate
       \/ /\ log' = Append(log, Event("create_dir_all", 0, FALSE))
          /\ Return(Fail(Err("IO", "Failed to create directories")))
          /\ UNCHANGED dirs
    /\ UNCHANGED <<args, inputs, format, context, idx, tera, t, files, stdout, exitCode>>

\* lines 116-125: create_dir_all(parent) for the destination of the template
CreateParent ==
    /\ pc = "create_parent"
    /\ \/ /\ dirs' = dirs \cup Ancestors(parent(path))
          /\ log' = Append(log, Event("create_dir_all", t + 1, TRUE))
          /\ pc' = "create_file"
          /\ UNCHANGED result
       \/ /\ log' = Append(log, Event("create_dir_all", t + 1, FALSE))
          /\ Return(Fail(Err("IO", "Failed to create directories")))
          /\ UNCHANGED dirs
    /\ UNCHANGED <<args, inputs, format, context, idx, tera, t, files, stdout, exitCode>>

\* faulty variant: an existing destination is opened without truncation
CreateFileKeepContents ==
    /\ pc = "create_file"
    /\ \/ /\ files' = IF path \in DOMAIN files THEN files ELSE (path :> "") @@ files
          /\ log' = Append(log, Event("File::create", t + 1, TRUE))
          /\ pc' = "render"
          /\ UNCHANGED result
       \/ /\ log' = Append(log, Event("File::create", t + 1, FALSE))
          /\ Return(Fail(Err("IO", "Failed to create file")))
          /\ UNCHANGED files
    /\ UNCHANGED <<args, inputs, format, context, idx, tera, t, dirs, stdout, exitCode>>

\* lines 126-128: File::create(&path) makes the file, or empties the one there
CreateFile ==
    /\ pc = "create_file"
    /\ \/ /\ files' = (path :> "") @@ files
          /\ log' = Append(log, Event("File::create", t + 1, TRUE))
          /\ pc' = "render"
          /\ UNCHANGED result
       \/ /\ log' = Append(log, Event("File::create", t + 1, FALSE))
          /\ Return(Fail(Err("IO", "Failed to create file")))
          /\ UNCHANGED files
    /\ UNCHANGED <<args, inputs, format, context, idx, tera, t, dirs, stdout, exitCode>>

\* line 129: tera.render_to(template, &context, &mut file)?.  Tera writes as
\* it renders, so a failed render leaves the file as created or partly written.
RenderToFile ==
    /\ pc = "render"
    /\ \/ /\ files' = (path :> "rendered") @@ files
          /\ log' = Append(log, Event("render_to", t + 1, TRUE))
          /\ pc' = "report"
          /\ UNCHANGED result
       \/ \E written \in {files[path], "partial"} :
            /\ files' = (path :> written) @@ files
            /\ log' = Append(log, Event("render_to", t + 1, FALSE))
            /\ Return(Fail(FromTera("render_to failed")))
    /\ UNCHANGED <<args, inputs, format, context, idx, tera, t, dirs, stdout, exitCode>>

\* lines 130-135: "rendered: <path>" on stderr, and the loop moves on
Report ==
    /\ pc = "report"
    /\ log' = Append(log, Event("rendered", t + 1, TRUE))
    /\ t' = t + 1
    /\ UNCHANGED tera
    /\ NextTemplate
    /\ UNCHANGED <<args, inputs, format, context, idx, tera, dirs, files, stdout, exitCode>>

(***************************************************************************)
(* run, lines 137-149: no output directory                                 *)
(***************************************************************************)
\* lines 138-143: read_to_string(&args.templates)
ReadTemplate ==
    /\ pc = "read_template"
    /\ \/ /\ log' = Append(log, Event("read_template", 0, TRUE))
          /\ pc' = "add_template"
          /\ UNCHANGED result
       \/ /\ log' = Append(log, Event("read_template", 0, FALSE))
          /\ Return(Fail(Err("IO", "Failed to read source file")))
    /\ UNCHANGED <<args, inputs, format, context, idx, tera, t, dirs, files, stdout,
                   exitCode>>

\* lines 144-146: tera.add_raw_template(&args.templates, &template_input)?
AddRawTemplate ==
    /\ pc = "add_template"
    /\ \/ /\ tera' = <<args.templates>>
          /\ log' = Append(log, Event("add_raw_template", 0, TRUE))
          /\ pc' = "render_stdout"
          /\ UNCHANGED result
       \/ /\ log' = Append(log, Event("add_raw_template", 0, FALSE))
          /\ Return(Fail(FromTera("add_raw_template failed")))
          /\ UNCHANGED tera
    /\ UNCHANGED <<args, inputs, format, context, idx, t, dirs, files, stdout, exitCode>>

\* lines 147-150: tera.render_to(&args.templates, &context, &mut stdout)?
RenderStdout ==
    /\ pc = "render_stdout"
    /\ \/ /\ stdout' = "rendered"
          /\ log' = Append(log, Event("render_to", 0, TRUE))
          /\ Return(Ok)
       \/ \E written \in {stdout, "partial"} :
            /\ stdout' = written
            /\ log' = Append(log, Event("render_to", 0, FALSE))
            /\ Return(Fail(FromTera("render_to failed")))
    /\ UNCHANGED <<args, inputs, format, context, idx, tera, t, dirs, files, exitCode>>

(***************************************************************************)
(* main, lines 29-40                                                       *)
(***************************************************************************)
\* lines 32-40: an error of run is written to stderr; main returns either way
MainReturn ==
    /\ pc = "returned"
    /\ log' = IF result.ok THEN log ELSE Append(log, Event("error", 0, TRUE))
    /\ exitCode' = 0
    /\ pc' = "exit"
    /\ UNCHANGED <<args, inputs, format, context, idx, result, tera, t, dirs, files,
                   stdout>>

Next ==
    \/ ResolveFormat
    \/ ReadSource
    \/ SourcesDone
    \/ StdinFormat
    \/ ReadStdin
    \/ DeserializeStep
    \/ DeserializeReturn
    \/ TeraNew
    \/ CreateOutDir
    \/ CreateParent
    \/ CreateFile
    \/ RenderToFile
    \/ Report
    \/ ReadTemplate
    \/ AddRawTemplate
    \/ RenderStdout
    \/ MainReturn

Spec == Init /\ [][Next]_vars

(***************************************************************************)
(* FileFormat resolution on its own: one source file, whose name is drawn  *)
(* from every spelling of a set of extensions, and the first step of run.  *)
(***************************************************************************)
\* every way to write word w in upper and lower case
Casings(w) ==
    {[k \in 1..Len(w) |-> IF k \in up THEN UpperChar(w[k]) ELSE w[k]] :
        up \in SUBSET (1..Len(w))}

Pads == {<<>>, <<" ">>, <<"\t">>, <<" ", " ">>}

\* every spelling of w that differs from it in case and surrounding whitespace
Spellings(w) == {l \o c \o r : l \in Pads, c \in Casings(w), r \in Pads}

ExtJson == <<"j","s","o","n">>
ExtYaml == <<"y","a","m","l">>
ExtYml == <<"y","m","l">>
ExtToml == <<"t","o","m","l">>
OtherExts == {<<"t","x","t">>, <<"j","s","o">>, <<"y","a"," ","m","l">>, <<"r","o","n">>, <<>>}

Stems == {<<"a">>, <<"a",".","b">>, <<"j","s","o","n">>}

NamesOf(w) == {FileName(stem, e) : stem \in Stems, e \in Spellings(w)}

\* names without an extension: no dot, or a leading dot only
BareNames == {<<"n","o","t","e","s">>, <<"j","s","o","n">>, <<".">> \o ExtJson,
              <<".">> \o ExtToml}

FormatNames ==
    NamesOf(ExtJson) \cup NamesOf(ExtYaml) \cup NamesOf(ExtYml) \cup NamesOf(ExtToml)
    \cup UNION {NamesOf(w) : w \in OtherExts} \cup BareNames

InitFormat ==
    \E name \in FormatNames, f \in FileFormat \cup {None} :
        Start([sources |-> [some |-> TRUE, v |-> <<name>>], out_dir |-> FALSE,
               format |-> f, templates |-> LiteralTemplate], NoFiles)

NextFormat == ResolveFormat

SpecFormat == InitFormat /\ [][NextFormat]_vars

(***************************************************************************)
(* deserialize on its own: any sequence of (format, document) pairs        *)
(***************************************************************************)
InitDeserialize ==
    \E input \in SeqsUpTo(FileFormat \X Docs, MaxSources) :
        /\ args = [sources |-> [some |-> TRUE, v |-> <<>>], out_dir |-> FALSE,
                   format |-> None, templates |-> LiteralTemplate]
        /\ pc = "deserialize"
        /\ inputs = input
        /\ format = None /\ context = ContextNew /\ idx = 0 /\ result = Running
        /\ tera = <<>> /\ t = 0 /\ dirs = {} /\ files = NoFiles /\ stdout = ""
        /\ log = <<>> /\ exitCode = -1

NextDeserialize == DeserializeStep \/ DeserializeReturn

SpecDeserialize == InitDeserialize /\ [][NextDeserialize]_vars

(***************************************************************************)
(* Properties                                                              *)
(***************************************************************************)
Returned == pc \in {"returned", "exit"}
Failed(kind) == Returned /\ ~result.ok /\ result.err.kind = kind

\* positions of the log
Pos == 1..Len(log)
SourceOps == {"resolve", "read_source", "read_stdin", "from_str"}
TemplateOps == {"Tera::new", "read_template", "add_raw_template", "render_to", "rendered"}
WriteOps == {"create_dir_all", "File::create"}

\* number of sources of the run
SourcesCount == IF args.sources.some THEN Len(args.sources.v) ELSE 1

\* what deserialization makes of input k, and the keys it defines
TopLevel(k) == FromStr(inputs[k][1], inputs[k][2])
Keys(k) == DOMAIN TopLevel(k).value.members
AllMappings == \A k \in 1..Len(inputs) : TopLevel(k).ok /\ TopLevel(k).value.kind = "object"
Definers(key) == {k \in 1..Len(inputs) : key \in Keys(k)}
LastDefiner(key) == CHOOSE k \in Definers(key) : \A m \in Definers(key) : m <= k

\* C1: when every input parses to a mapping, deserialize returns a context
\* whose keys are the union of the inputs' top-level keys, each bound to the
\* whole value the last input defining it gives (no deep merge).
C1_LastWriterWins ==
    (pc # "deserialize" /\ AllMappings) =>
        /\ result = Running
        /\ idx = Len(inputs)
        /\ DOMAIN context = UNION {Keys(k) : k \in 1..Len(inputs)}
        /\ \A key \in DOMAIN context :
              context[key] = TopLevel(LastDefiner(key)).value.members[key]

C1_Witness ==
    /\ pc # "deserialize"
    /\ inputs = << <<"Json", DocNestX>>, <<"Yaml", DocNestY>> >>
    /\ DOMAIN context = {"a", "b", "c"}
    /\ context["a"] = Object("y" :> Num(2))

\* e is word w up to the case of its letters and to whitespace around it
Spells(e, w) ==
    \E l \in Pads, r \in Pads :
        /\ Len(e) = Len(l) + Len(w) + Len(r)
        /\ SubSeq(e, 1, Len(l)) = l
        /\ SubSeq(e, Len(e) - Len(r) + 1, Len(e)) = r
        /\ \A k \in 1..Len(w) : e[Len(l) + k] \in {w[k], UpperChar(w[k])}

\* the file name is a stem, a dot and some spelling of extension w
HasExt(name, w) ==
    \E stem \in Stems :
        /\ Len(name) > Len(stem)
        /\ SubSeq(name, 1, Len(stem) + 1) = stem \o <<".">>
        /\ Spells(SubSeq(name, Len(stem) + 2, Len(name)), w)

ExpectedFormat(name) ==
    IF HasExt(name, ExtJson) THEN "Json"
    ELSE IF HasExt(name, ExtYaml) \/ HasExt(name, ExtYml) THEN "Yaml"
    ELSE IF HasExt(name, ExtToml) THEN "Toml"
    ELSE None

\* C2: the format of a file source is the explicit format when one is given;
\* otherwise the one its extension spells, whatever the case and surrounding
\* whitespace; resolution fails with UnsupportedExt exactly when there is no
\* explicit format and the extension spells none of json, yaml, yml, toml.
C2_FormatResolution ==
    (pc # "sources") =>
        LET name == args.sources.v[1]
            expected == IF args.format # None THEN args.format ELSE ExpectedFormat(name)
        IN  IF expected = None
            THEN Failed("UnsupportedExt")
            ELSE pc = "read" /\ format = expected /\ result = Running

C2_Witness ==
    /\ pc = "read"
    /\ args.format = None
    /\ args.sources.v[1] = FileName(<<"a",".","b">>, <<" ","Y","m","L","\t">>)
    /\ format = "Yaml"

\* C3: standard input without a format flag: the run fails with the "Format
\* required" error and nothing is read, deserialized, loaded or written.
C3_FormatRequired ==
    (~args.sources.some /\ args.format = None) =>
        /\ pc \in {"stdin", "returned", "exit"}
        /\ \A k \in Pos : log[k].op = "error"
        /\ inputs = <<>> /\ idx = 0 /\ tera = <<>> /\ stdout = ""
        /\ Returned => /\ ~result.ok
                       /\ result.err = Err("Msg", "Format required when using stdin!")

C3_Witness ==
    /\ pc = "exit"
    /\ ~args.sources.some /\ args.format = None
    /\ result.err.kind = "Msg"

\* the last call the run made
LastCall == log[CHOOSE k \in Pos : log[k].op # "error" /\ \A m \in Pos : m > k => log[m].op = "error"]

\* the run ended because source idx + 1 parsed to something that is no mapping
ShapeFailed ==
    /\ Returned /\ ~result.ok
    /\ idx < Len(inputs)
    /\ TopLevel(idx + 1).ok /\ TopLevel(idx + 1).value.kind # "object"
    /\ LastCall = Event("from_str", idx + 1, TRUE)

\* C4: a source that parses to a non-mapping fails the run with an error of
\* its own kind, neither Deserialization nor Template, naming the source index.
C4_ContextShapeError ==
    ShapeFailed =>
        /\ result.err.kind \notin {"Deserialization", "Template"}
        /\ result.err.index = idx + 1

\* the glob of an output-directory run matched no file
ZeroMatch == args.out_dir /\ \E k \in Pos : log[k] = Event("Tera::new", 0, TRUE)

\* C5: when the glob matches no file the run fails with a template error and
\* the output directory is never created.
C5_ZeroMatchFails ==
    ZeroMatch =>
        /\ \A k \in Pos : log[k].op # "create_dir_all"
        /\ files = NoFiles => OutDir \notin dirs
        /\ Returned => Failed("Template")

\* C6: the exit code is 0 exactly when run succeeded.
C6_ExitCode ==
    pc = "exit" => (exitCode = 0 <=> result.ok)

\* the directories the files on disk imply
DirsOf(disk) == UNION {Ancestors(parent(p)) : p \in DOMAIN disk}

\* C7: without an output directory nothing is created or written on disk,
\* whatever the template argument; text goes to standard output only, and a
\* template argument that cannot be read ends in a reported IO error.
C7_NoOutDirNoWrites ==
    ~args.out_dir =>
        /\ \A p \in DOMAIN files : files[p] = "old"
        /\ dirs = DirsOf(files)
        /\ \A k \in Pos : /\ log[k].op \notin WriteOps \cup {"Tera::new", "rendered"}
                          /\ log[k].op = "render_to" => log[k].n = 0
        /\ stdout # "" => \E k \in Pos : log[k].op = "render_to"
        /\ (\E k \in Pos : log[k] = Event("read_template", 0, FALSE)) =>
              /\ Failed("IO")
              /\ stdout = ""
              /\ pc = "exit" => log[Len(log)].op = "error"

C7_Witness ==
    /\ ~args.out_dir
    /\ args.templates = GlobTemplate
    /\ pc = "exit"
    /\ \E k \in Pos : log[k] = Event("read_template", 0, FALSE)
    /\ \E p \in DOMAIN files : files[p] = "old"

\* no template was loaded or rendered and nothing was created or written
Untouched ==
    /\ \A k \in Pos : log[k].op \notin TemplateOps \cup WriteOps
    /\ tera = <<>> /\ stdout = ""
    /\ dirs = DirsOf(files) /\ \A p \in DOMAIN files : files[p] = "old"

\* source k went through call op successfully before position at
DoneBefore(op, k, at) == \E m \in 1..(at - 1) : log[m] = Event(op, k, TRUE)

\* C8: sources are resolved, read and deserialized in the order given and the
\* context is complete before any template is loaded or anything is created;
\* a source that fails ends the run there: nothing happens afterwards but the
\* report of the error.
C8_SourcesFirstFailFast ==
    /\ \A k, m \in Pos :
          (k < m /\ log[k].op = log[m].op /\ log[k].op \in SourceOps) => log[k].n < log[m].n
    /\ \A k \in Pos :
          /\ log[k].op = "read_source" => DoneBefore("resolve", log[k].n, k)
          /\ log[k].op = "from_str" =>
                \A n \in 1..SourcesCount :
                    DoneBefore(IF args.sources.some THEN "read_source" ELSE "read_stdin", n, k)
          /\ log[k].op \in TemplateOps \cup WriteOps =>
                /\ \A n \in 1..SourcesCount : DoneBefore("from_str", n, k)
                /\ idx = SourcesCount /\ Len(inputs) = SourcesCount
          /\ (log[k].op \in SourceOps /\ ~log[k].ok) =>
                /\ \A m \in Pos : m > k => log[m].op = "error"
                /\ Returned /\ ~result.ok
                /\ Untouched
    /\ (idx < Len(inputs) /\ \E k \in Pos : log[k] = Event("from_str", idx + 1, TRUE)) =>
          /\ LastCall = Event("from_str", idx + 1, TRUE)
          /\ Returned /\ ~result.ok
          /\ Untouched
    /\ (Returned /\ ~result.ok /\ result.err.kind \in {"UnsupportedExt", "Deserialization", "Msg"}) =>
          Untouched

C8_Witness ==
    /\ pc = "exit"
    /\ args.sources.some /\ Len(inputs) = 2 /\ idx = 1
    /\ args.out_dir
    /\ \E k \in Pos : log[k] = Event("from_str", 2, FALSE)

\* destination of the n-th template
Dest(n) == OutDir \o tera[n]
At(op, n) == {k \in Pos : log[k].op = op /\ log[k].n = n}
Before(a, b) == \A k \in a, m \in b : k < m

\* C9: in output-directory mode each template, in enumeration order, has its
\* parent directories created, then its file created under the output
\* directory joined with its name, then the text written, then the report
\* made; a report follows a successful render only, once per template.
C9_OutputOrder ==
    args.out_dir =>
        /\ \A n \in 1..Len(tera) :
              /\ Cardinality(At("create_dir_all", n)) <= 1
              /\ Cardinality(At("File::create", n)) <= 1
              /\ Cardinality(At("render_to", n)) <= 1
              /\ Cardinality(At("rendered", n)) <= 1
              /\ At("File::create", n) # {} => At("create_dir_all", n) # {}
              /\ At("render_to", n) # {} => At("File::create", n) # {}
              /\ At("rendered", n) # {} => At("render_to", n) # {}
              /\ Before(At("create_dir_all", n), At("File::create", n))
              /\ Before(At("File::create", n), At("render_to", n))
              /\ Before(At("render_to", n), At("rendered", n))
              /\ \A m \in 1..Len(tera) :
                    m < n => /\ At("create_dir_all", n) # {} => At("rendered", m) # {}
                             /\ Before(At("rendered", m), At("create_dir_all", n))
              /\ At("File::create", n) # {} =>
                    \A k \in At("File::create", n) : log[k].ok =>
                        /\ Dest(n) \in DOMAIN files
                        /\ Ancestors(parent(Dest(n))) \subseteq dirs
              /\ ((\E k \in At("File::create", n) : log[k].ok) /\ At("render_to", n) = {}) =>
                    files[Dest(n)] = ""
              /\ At("rendered", n) # {} =>
                    /\ \E k \in At("render_to", n) : log[k].ok
                    /\ Dest(n) \in DOMAIN files /\ files[Dest(n)] = "rendered"
              /\ (\E k \in At("render_to", n) : log[k].ok) =>
                    (At("rendered", n) # {} <=> (n <= t))
        /\ \A p \in DOMAIN files : files[p] # "old" => \E n \in 1..Len(tera) : p = Dest(n)
        /\ (Returned /\ result.ok) =>
              \A n \in 1..Len(tera) : Cardinality(At("rendered", n)) = 1

C9_Witness ==
    /\ args.out_dir
    /\ pc = "exit" /\ result.ok
    /\ Len(tera) = 2 /\ t = 2
    /\ tera[2] = <<"sub", "page.txt">>
    /\ <<"out", "sub", "page.txt">> \in DOMAIN files
    /\ files[<<"out", "sub", "page.txt">>] = "rendered"
    /\ <<"out", "sub">> \in dirs

\* the render of the n-th template failed
RenderFailed(n) == \E k \in Pos : log[k] = Event("render_to", n, FALSE)

\* C10: a template's file is created and emptied before the template is
\* rendered, so a failed render ends the run with a template error and leaves
\* that file without its old contents; the files of earlier templates stay
\* as rendered, and later templates are not touched.
C10_RenderFailure ==
    /\ \A n \in 1..Len(tera) :
          (args.out_dir /\ At("render_to", n) # {}) =>
              /\ \E k \in At("File::create", n) : log[k].ok
              /\ Before(At("File::create", n), At("render_to", n))
    /\ \A n \in 1..Len(tera) :
          (args.out_dir /\ RenderFailed(n)) =>
              /\ Failed("Template")
              /\ t = n - 1
              /\ Dest(n) \in DOMAIN files /\ files[Dest(n)] \in {"", "partial"}
              /\ At("rendered", n) = {}
              /\ \A m \in 1..(n - 1) :
                    /\ Dest(m) \in DOMAIN files /\ files[Dest(m)] = "rendered"
                    /\ At("rendered", m) # {}
              /\ \A m \in (n + 1)..Len(tera) :
                    /\ \A k \in Pos : log[k].n = m =>
                          log[k].op \notin WriteOps \cup {"render_to", "rendered"}
                    /\ Dest(m) \in DOMAIN files => files[Dest(m)] = "old"

C10_Witness ==
    /\ args.out_dir
    /\ pc = "exit"
    /\ Len(tera) = 2
    /\ RenderFailed(1)
    /\ {Dest(1), Dest(2)} \subseteq DOMAIN files
    /\ files[Dest(1)] = ""
    /\ files[Dest(2)] = "old"

====
